---- MODULE Spec2Model ----
(***************************************************************************)
(* Model of the chess rules kernel of blamedcloud/ChessAI:                 *)
(*   chess_game.rs              ChessGameState (new, make_move,            *)
(*                              get_legal_moves, has_legal_moves,          *)
(*                              get_all_moves, add_*_moves, get_fen)       *)
(*   chess_game/chess_board.rs  ChessBoard (new, make_move, calc_seen)     *)
(*   chess_game/chess_square.rs SquareID, add_offset, ChessSquare::initial *)
(*   chess_game/chess_piece.rs  ChessPiece, knight/king offsets            *)
(*   chess_game/chess_move.rs   ChessMove, Annotation, AnnotatedMove       *)
(* A square is its index rank*8+file in 0..63; an off-board result of      *)
(* add_offset (Option::None) is NoSq; an empty square (Option::None of a   *)
(* piece) is NoPiece.                                                      *)
(***************************************************************************)
EXTENDS Integers, Sequences, FiniteSets, TLC

\* ------------------------------------------------------------------------
\* chess_square.rs : File, Rank, SquareID, SquareOffset
\* ------------------------------------------------------------------------
A == 0
B == 1
C == 2
D == 3
E == 4
F == 5
G == 6
H == 7

One == 0
Two == 1
Three == 2
Four == 3
Five == 4
Six == 5
Seven == 6
Eight == 7

Squares == 0..63
NoSq == 64

SquareID(f, r) == r * 8 + f
file(id) == id % 8
rank(id) == id \div 8

\* SquareID::add_offset : Some(square) when both coordinates stay in 0..7
add_offset(id, df, dr) ==
    LET new_f == file(id) + df
        new_r == rank(id) + dr
    IN  IF new_f >= 0 /\ new_f < 8 /\ new_r >= 0 /\ new_r < 8
        THEN SquareID(new_f, new_r)
        ELSE NoSq

\* SquareID::calc_offset(target) : the offset that leads from id to target
calc_offset(id, target) == <<file(target) - file(id), rank(target) - rank(id)>>

abs(n) == IF n < 0 THEN -n ELSE n

\* Rust's integer division truncates toward zero
div_trunc(n, d) == IF n < 0 THEN -((-n) \div d) ELSE n \div d

\* ------------------------------------------------------------------------
\* chess_game.rs : Player ; chess_piece.rs : ChessPiece, PieceName
\* ------------------------------------------------------------------------
Players == {"White", "Black"}
opponent(p) == IF p = "White" THEN "Black" ELSE "White"

PieceNames == {"Pawn", "Knight", "Bishop", "Rook", "Queen", "King"}
NoPiece == [owner |-> "-", name |-> "-", moved |-> FALSE]
ChessPiece(owner, name, moved) == [owner |-> owner, name |-> name, moved |-> moved]

\* a setter that writes to a copy and leaves the piece as it was
set_moved_on_copy(piece, moved) == piece

set_moved(piece, moved) == [piece EXCEPT !.moved = moved]

knight_offsets ==
    {<<-2, -1>>, <<-2, 1>>, <<-1, -2>>, <<-1, 2>>, <<1, -2>>, <<1, 2>>, <<2, -1>>, <<2, 1>>}
king_offsets ==
    {<<-1, -1>>, <<-1, 0>>, <<-1, 1>>, <<0, -1>>, <<0, 1>>, <<1, -1>>, <<1, 0>>, <<1, 1>>}
bishop_dirs == {<<-1, -1>>, <<-1, 1>>, <<1, -1>>, <<1, 1>>}
rook_dirs == {<<-1, 0>>, <<1, 0>>, <<0, -1>>, <<0, 1>>}

\* the forward rank step of a player's pawns
forward(player) == IF player = "White" THEN 1 ELSE -1

\* ------------------------------------------------------------------------
\* chess_square.rs : ChessSquare::initial
\* ------------------------------------------------------------------------
back_rank_name(f) ==
    IF f \in {A, H} THEN "Rook"
    ELSE IF f \in {B, G} THEN "Knight"
    ELSE IF f \in {C, F} THEN "Bishop"
    ELSE IF f = D THEN "Queen"
    ELSE "King"

initial_piece(i) ==
    IF rank(i) = One THEN ChessPiece("White", back_rank_name(file(i)), FALSE)
    ELSE IF rank(i) = Two THEN ChessPiece("White", "Pawn", FALSE)
    ELSE IF rank(i) = Seven THEN ChessPiece("Black", "Pawn", FALSE)
    ELSE IF rank(i) = Eight THEN ChessPiece("Black", back_rank_name(file(i)), FALSE)
    ELSE NoPiece

\* literals that leave the knights out of the third and sixth ranks
initial_seen_pair_no_knights(i) ==
    IF rank(i) = One THEN (IF file(i) \in {A, H} THEN <<0, 0>> ELSE <<1, 0>>)
    ELSE IF rank(i) = Two THEN (IF file(i) \in {D, E} THEN <<4, 0>> ELSE <<1, 0>>)
    ELSE IF rank(i) = Three THEN <<2, 0>>
    ELSE IF rank(i) = Eight THEN (IF file(i) \in {A, H} THEN <<0, 0>> ELSE <<0, 1>>)
    ELSE IF rank(i) = Seven THEN (IF file(i) \in {D, E} THEN <<0, 4>> ELSE <<0, 1>>)
    ELSE IF rank(i) = Six THEN <<0, 2>>
    ELSE <<0, 0>>

\* the seen_by literals of the starting board, as <<white, black>>
initial_seen_pair(i) ==
    IF rank(i) = One THEN (IF file(i) \in {A, H} THEN <<0, 0>> ELSE <<1, 0>>)
    ELSE IF rank(i) = Two THEN (IF file(i) \in {D, E} THEN <<4, 0>> ELSE <<1, 0>>)
    ELSE IF rank(i) = Three THEN (IF file(i) \in {C, F} THEN <<3, 0>> ELSE <<2, 0>>)
    ELSE IF rank(i) = Eight THEN (IF file(i) \in {A, H} THEN <<0, 0>> ELSE <<0, 1>>)
    ELSE IF rank(i) = Seven THEN (IF file(i) \in {D, E} THEN <<0, 4>> ELSE <<0, 1>>)
    ELSE IF rank(i) = Six THEN (IF file(i) \in {C, F} THEN <<0, 3>> ELSE <<0, 2>>)
    ELSE <<0, 0>>

initial_seen(i) ==
    [p \in Players |-> IF p = "White" THEN initial_seen_pair(i)[1] ELSE initial_seen_pair(i)[2]]

\* ------------------------------------------------------------------------
\* chess_board.rs : the attack map
\* ------------------------------------------------------------------------
\* the targets of a fixed set of offsets that are on the board
offset_targets(id, offsets) ==
    {add_offset(id, o[1], o[2]) : o \in {x \in offsets : add_offset(id, x[1], x[2]) # NoSq}}

\* a pawn that also sees the square in front of it
pawn_seen_forward(id, player) ==
    offset_targets(id, {<<-1, forward(player)>>, <<0, forward(player)>>, <<1, forward(player)>>})

pawn_seen(id, player) ==
    offset_targets(id, {<<-1, forward(player)>>, <<1, forward(player)>>})

knight_seen(id) == offset_targets(id, knight_offsets)

king_seen(id) == offset_targets(id, king_offsets)

\* a ray that stops in front of the first occupied square
RECURSIVE los_seen_stops_short(_, _, _, _)
los_seen_stops_short(pieces, id, dir, i) ==
    IF i > 7 THEN {}
    ELSE LET target == add_offset(id, i * dir[1], i * dir[2])
         IN  IF target = NoSq THEN {}
             ELSE IF pieces[target] # NoPiece THEN {}
             ELSE {target} \cup los_seen_stops_short(pieces, id, dir, i + 1)

\* one ray: every square up to and including the first occupied one
RECURSIVE los_seen(_, _, _, _)
los_seen(pieces, id, dir, i) ==
    IF i > 7 THEN {}
    ELSE LET target == add_offset(id, i * dir[1], i * dir[2])
         IN  IF target = NoSq THEN {}
             ELSE IF pieces[target] # NoPiece THEN {target}
             ELSE {target} \cup los_seen(pieces, id, dir, i + 1)

bishop_seen(pieces, id) == UNION {los_seen(pieces, id, d, 1) : d \in bishop_dirs}

rook_seen(pieces, id) == UNION {los_seen(pieces, id, d, 1) : d \in rook_dirs}

queen_seen(pieces, id) == bishop_seen(pieces, id) \cup rook_seen(pieces, id)

\* the squares on which the piece standing on id adds 1 to its owner's counter
piece_seen(pieces, id) ==
    LET piece == pieces[id]
    IN  CASE piece.name = "Pawn" -> pawn_seen(id, piece.owner)
          [] piece.name = "Knight" -> knight_seen(id)
          [] piece.name = "Bishop" -> bishop_seen(pieces, id)
          [] piece.name = "Rook" -> rook_seen(pieces, id)
          [] piece.name = "Queen" -> queen_seen(pieces, id)
          [] piece.name = "King" -> king_seen(id)

\* clear_seen, then one add_seen_by(owner, 1) per piece and square it sees:
\* a piece never sees the same square twice, so the counter of a square is
\* the number of the player's pieces that see it
calc_seen(pieces) ==
    LET occupied == {s \in Squares : pieces[s] # NoPiece}
        adds == UNION {{<<s, t>> : t \in piece_seen(pieces, s)} : s \in occupied}
    IN  [t \in Squares |->
            [p \in Players |->
                Cardinality({x \in adds : x[2] = t /\ pieces[x[1]].owner = p})]]

\* ChessSquare::get_seen : the counters as [white, black]
get_seen(sq_seen) == <<sq_seen["White"], sq_seen["Black"]>>

is_seen_by(sq_seen, player) == sq_seen[player] > 0
not_seen_by(sq_seen, player) == sq_seen[player] = 0

\* ------------------------------------------------------------------------
\* chess_move.rs : ChessMove, Annotation, AnnotatedMove
\* ------------------------------------------------------------------------
Move(id, target) == [kind |-> "Move", id |-> id, target |-> target, name |-> "-"]
Capture(id, target) == [kind |-> "Capture", id |-> id, target |-> target, name |-> "-"]
EnPassant(id, target) == [kind |-> "EnPassant", id |-> id, target |-> target, name |-> "-"]
ShortCastle == [kind |-> "ShortCastle", id |-> NoSq, target |-> NoSq, name |-> "-"]
LongCastle == [kind |-> "LongCastle", id |-> NoSq, target |-> NoSq, name |-> "-"]
Promotion(target, name) == [kind |-> "Promotion", id |-> NoSq, target |-> target, name |-> name]
CapturePromotion(id, target, name) ==
    [kind |-> "CapturePromotion", id |-> id, target |-> target, name |-> name]

Annotations == {"None", "Check", "CheckMate", "Draw"}
AnnotatedMove(chess_move, annotation) == [chess_move |-> chess_move, annotation |-> annotation]

\* ------------------------------------------------------------------------
\* chess_board.rs : ChessBoard::new, get_king_sq, make_move
\* A board is [pieces |-> square -> piece, seen |-> square -> player -> count]
\* ------------------------------------------------------------------------
ChessBoard_new ==
    [pieces |-> [i \in Squares |-> initial_piece(i)],
     seen |-> [i \in Squares |-> initial_seen(i)]]

is_king_of(pieces, i, player) ==
    pieces[i] # NoPiece /\ pieces[i].name = "King" /\ pieces[i].owner = player

\* the first square in index order that holds the player's king; NoSq stands
\* for the panic of a board without that king
get_king_sq(pieces, player) ==
    IF \E i \in Squares : is_king_of(pieces, i, player)
    THEN CHOOSE i \in Squares :
            /\ is_king_of(pieces, i, player)
            /\ \A j \in Squares : is_king_of(pieces, j, player) => i <= j
    ELSE NoSq

castle_rank(player) == IF player = "White" THEN One ELSE Eight

\* an ep_id built from the file of the origin and the rank of the target
ep_id_swapped(m) == SquareID(file(m.id), rank(m.target))

\* the ep_id of an EnPassant: the square of the pawn that is taken
ep_id(m) == SquareID(file(m.target), rank(m.id))

\* the piece placement after the match of ChessBoard::make_move
move_pieces(pieces, m, player) ==
    CASE m.kind \in {"Move", "Capture"} ->
            [pieces EXCEPT ![m.id] = NoPiece,
                           ![m.target] = set_moved(pieces[m.id], TRUE)]
      [] m.kind = "EnPassant" ->
            [pieces EXCEPT ![m.id] = NoPiece,
                           ![m.target] = pieces[m.id],
                           ![ep_id(m)] = NoPiece]
      [] m.kind = "ShortCastle" ->
            LET r == castle_rank(player)
            IN  [pieces EXCEPT ![SquareID(E, r)] = NoPiece,
                               ![SquareID(G, r)] = set_moved(pieces[SquareID(E, r)], TRUE),
                               ![SquareID(H, r)] = NoPiece,
                               ![SquareID(F, r)] = set_moved(pieces[SquareID(H, r)], TRUE)]
      [] m.kind = "LongCastle" ->
            LET r == castle_rank(player)
            IN  [pieces EXCEPT ![SquareID(E, r)] = NoPiece,
                               ![SquareID(C, r)] = set_moved(pieces[SquareID(E, r)], TRUE),
                               ![SquareID(A, r)] = NoPiece,
                               ![SquareID(D, r)] = set_moved(pieces[SquareID(A, r)], TRUE)]
      [] m.kind = "Promotion" ->
            LET id == IF player = "White" THEN SquareID(file(m.target), Seven)
                      ELSE SquareID(file(m.target), Two)
            IN  [pieces EXCEPT ![id] = NoPiece,
                               ![m.target] = ChessPiece(player, m.name, TRUE)]
      [] m.kind = "CapturePromotion" ->
            [pieces EXCEPT ![m.id] = NoPiece,
                           ![m.target] = ChessPiece(player, m.name, TRUE)]

board_make_move(board, m, player) ==
    LET new_pieces == move_pieces(board.pieces, m, player)
    IN  [pieces |-> new_pieces, seen |-> calc_seen(new_pieces)]

\* ------------------------------------------------------------------------
\* chess_game.rs : ChessGameState
\* A game is [board, active_player, result, ep_square, draw_clock, turn_num];
\* result is "None", "WhiteWin", "BlackWin" or "Draw"; ep_square is a square
\* or NoSq.
\* ------------------------------------------------------------------------
FiftyMoveLimit == 50

ChessGameState_new ==
    [board |-> ChessBoard_new,
     active_player |-> "White",
     result |-> "None",
     ep_square |-> NoSq,
     draw_clock |-> 0,
     turn_num |-> 1]

\* a test that takes the Move of any piece for a pawn move
is_pawn_move_any_piece(g, m) ==
    m.kind = "Move" /\ g.board.pieces[m.id] # NoPiece

\* a quiet Move of a pawn (the piece is read before the board changes)
is_pawn_move(g, m) ==
    m.kind = "Move" /\ g.board.pieces[m.id] # NoPiece /\ g.board.pieces[m.id].name = "Pawn"

\* a clock that castling resets
next_draw_clock_castle_resets(g, m) ==
    CASE m.kind = "Move" -> IF is_pawn_move(g, m) THEN 0 ELSE g.draw_clock + 1
      [] m.kind \in {"Capture", "EnPassant", "Promotion", "CapturePromotion"} -> 0
      [] m.kind \in {"ShortCastle", "LongCastle"} -> 0

\* the first match of make_move: the halfmove clock
next_draw_clock(g, m) ==
    CASE m.kind = "Move" -> IF is_pawn_move(g, m) THEN 0 ELSE g.draw_clock + 1
      [] m.kind \in {"Capture", "EnPassant", "Promotion", "CapturePromotion"} -> 0
      [] m.kind \in {"ShortCastle", "LongCastle"} -> g.draw_clock + 1

\* an en passant square that is not halved: the destination of the pawn
next_ep_square_unhalved(g, m) ==
    IF is_pawn_move(g, m)
    THEN LET offset == calc_offset(m.id, m.target)
         IN  IF offset[1] = 0 /\ abs(offset[2]) = 2
             THEN add_offset(m.id, 0, offset[2])
             ELSE NoSq
    ELSE NoSq

\* the first match of make_move: the en passant square
next_ep_square(g, m) ==
    IF is_pawn_move(g, m)
    THEN LET offset == calc_offset(m.id, m.target)
         IN  IF offset[1] = 0 /\ abs(offset[2]) = 2
             THEN add_offset(m.id, 0, div_trunc(offset[2], 2))
             ELSE NoSq
    ELSE NoSq

\* the second match of make_move: the annotation sets the result
annotation_result(g, annotation) ==
    CASE annotation = "CheckMate" ->
            (IF g.active_player = "White" THEN "WhiteWin" ELSE "BlackWin")
      [] annotation = "Draw" -> "Draw"
      [] OTHER -> g.result

\* a fifty-move test that overrides a result already set
fifty_result_overrides(result, draw_clock) ==
    IF draw_clock >= FiftyMoveLimit THEN "Draw" ELSE result

\* a fifty-move test that fires one ply late
fifty_result_late(result, draw_clock) ==
    IF result = "None" /\ draw_clock > FiftyMoveLimit THEN "Draw" ELSE result

\* the fifty-move test, made after the annotation was applied
fifty_result(result, draw_clock) ==
    IF result = "None" /\ draw_clock >= FiftyMoveLimit THEN "Draw" ELSE result

\* a fullmove number that goes up after a move of White
next_turn_num_white(g) == IF g.active_player = "White" THEN g.turn_num + 1 ELSE g.turn_num

\* the fullmove number goes up after a move of Black
next_turn_num(g) == IF g.active_player = "Black" THEN g.turn_num + 1 ELSE g.turn_num

make_move(g, am) ==
    LET m == am.chess_move
        clock == next_draw_clock(g, m)
    IN  [board |-> board_make_move(g.board, m, g.active_player),
         active_player |-> opponent(g.active_player),
         result |-> fifty_result(annotation_result(g, am.annotation), clock),
         ep_square |-> next_ep_square(g, m),
         draw_clock |-> clock,
         turn_num |-> next_turn_num(g)]

\* a list of promotion pieces that offers the queen only
promote_to_queen_only == {"Queen"}

\* ---- pseudo-legal move generation -------------------------------------
promote_to == {"Knight", "Bishop", "Rook", "Queen"}

\* the two last ranks taken for each other
promotion_rank_swapped(player) == IF player = "White" THEN One ELSE Eight

promotion_rank(player) == IF player = "White" THEN Eight ELSE One

add_pawn_moves(g, id) ==
    LET pieces == g.board.pieces
        me == g.active_player
        push_sq == add_offset(id, 0, forward(me))
        double_sq == add_offset(push_sq, 0, forward(me))
        pushes ==
            IF pieces[push_sq] = NoPiece
            THEN IF rank(push_sq) = promotion_rank(me)
                 THEN {Promotion(push_sq, n) : n \in promote_to}
                 ELSE {Move(id, push_sq)} \cup
                      (IF ~pieces[id].moved /\ pieces[double_sq] = NoPiece
                       THEN {Move(id, double_sq)} ELSE {})
            ELSE {}
        capture_moves(target_id) ==
            IF target_id = NoSq THEN {}
            ELSE IF pieces[target_id] # NoPiece /\ pieces[target_id].owner = opponent(me)
            THEN IF rank(target_id) = promotion_rank(me)
                 THEN {CapturePromotion(id, target_id, n) : n \in promote_to}
                 ELSE {Capture(id, target_id)}
            ELSE IF pieces[target_id] = NoPiece /\ g.ep_square # NoSq /\ g.ep_square = target_id
            THEN {EnPassant(id, target_id)}
            ELSE {}
    IN  pushes \cup capture_moves(add_offset(push_sq, -1, 0))
               \cup capture_moves(add_offset(push_sq, 1, 0))

\* a jump that also takes a piece of the mover
jump_move_onto_friend(g, id, target) ==
    IF g.board.pieces[target] = NoPiece THEN {Move(id, target)}
    ELSE {Capture(id, target)}

\* a jump to target: a Move onto an empty square, a Capture of an enemy piece
jump_move(g, id, target) ==
    IF g.board.pieces[target] = NoPiece THEN {Move(id, target)}
    ELSE IF g.board.pieces[target].owner # g.active_player THEN {Capture(id, target)}
    ELSE {}

add_knight_moves(g, id) ==
    UNION {jump_move(g, id, t) : t \in offset_targets(id, knight_offsets)}

RECURSIVE add_los_moves(_, _, _, _)
add_los_moves(g, id, dir, i) ==
    IF i > 7 THEN {}
    ELSE LET target == add_offset(id, i * dir[1], i * dir[2])
         IN  IF target = NoSq THEN {}
             ELSE IF g.board.pieces[target] = NoPiece
             THEN {Move(id, target)} \cup add_los_moves(g, id, dir, i + 1)
             ELSE IF g.board.pieces[target].owner # g.active_player
             THEN {Capture(id, target)}
             ELSE {}

add_bishop_moves(g, id) == UNION {add_los_moves(g, id, d, 1) : d \in bishop_dirs}

add_rook_moves(g, id) == UNION {add_los_moves(g, id, d, 1) : d \in rook_dirs}

add_queen_moves(g, id) == add_bishop_moves(g, id) \cup add_rook_moves(g, id)

\* a test that looks at the name of the piece only
castling_valid_by_name(pieces, id, name) ==
    pieces[id] # NoPiece /\ pieces[id].name = name

\* castling_valid and the rook tests of add_king_moves
castling_valid(pieces, id, name) ==
    pieces[id] # NoPiece /\ pieces[id].name = name /\ ~pieces[id].moved

\* a test that forgets to look for a piece on the square
empty_unseen_seen_only(g, id) ==
    not_seen_by(g.board.seen[id], opponent(g.active_player))

empty_unseen(g, id) ==
    g.board.pieces[id] = NoPiece /\ not_seen_by(g.board.seen[id], opponent(g.active_player))

add_king_moves(g, id) ==
    LET pieces == g.board.pieces
        opp == opponent(g.active_player)
        r == rank(id)
        standard ==
            UNION {jump_move(g, id, t) :
                     t \in {x \in offset_targets(id, king_offsets) :
                              not_seen_by(g.board.seen[x], opp)}}
        short ==
            IF /\ castling_valid(pieces, SquareID(H, r), "Rook")
               /\ empty_unseen(g, SquareID(F, r))
               /\ empty_unseen(g, SquareID(G, r))
            THEN {ShortCastle} ELSE {}
        long ==
            IF /\ castling_valid(pieces, SquareID(A, r), "Rook")
               /\ empty_unseen(g, SquareID(D, r))
               /\ empty_unseen(g, SquareID(C, r))
               /\ pieces[SquareID(B, r)] = NoPiece
            THEN {LongCastle} ELSE {}
    IN  standard \cup
        (IF ~pieces[id].moved /\ not_seen_by(g.board.seen[id], opp)
         THEN short \cup long ELSE {})

piece_moves(g, id) ==
    LET name == g.board.pieces[id].name
    IN  CASE name = "Pawn" -> add_pawn_moves(g, id)
          [] name = "Knight" -> add_knight_moves(g, id)
          [] name = "Bishop" -> add_bishop_moves(g, id)
          [] name = "Rook" -> add_rook_moves(g, id)
          [] name = "Queen" -> add_queen_moves(g, id)
          [] name = "King" -> add_king_moves(g, id)

\* the moves of the list are pairwise different, so the list is modelled by
\* the set of its elements
get_all_moves(g) ==
    UNION {piece_moves(g, id) :
             id \in {s \in Squares : g.board.pieces[s] # NoPiece
                                     /\ g.board.pieces[s].owner = g.active_player}}

\* ---- legality filter and annotation -----------------------------------
\* the trial copy of get_legal_moves and has_legal_moves
trial_copy(g, m) == make_move(g, AnnotatedMove(m, "None"))

\* a filter that only finds the king on the copy
king_safe_unfiltered(g, my_copy) ==
    get_king_sq(my_copy.board.pieces, g.active_player) # NoSq

\* on the copy, the mover's king is not seen by the opponent
king_safe(g, my_copy) ==
    not_seen_by(my_copy.board.seen[get_king_sq(my_copy.board.pieces, g.active_player)],
                opponent(g.active_player))

\* a reply test that takes every pseudo-legal move for a reply
has_legal_moves_unfiltered(g) == get_all_moves(g) # {}

has_legal_moves(g) ==
    \E m \in get_all_moves(g) : king_safe(g, trial_copy(g, m))

annotate(is_check, has_legal_move) ==
    CASE is_check /\ has_legal_move -> "Check"
      [] is_check /\ ~has_legal_move -> "CheckMate"
      [] ~is_check /\ has_legal_move -> "None"
      [] ~is_check /\ ~has_legal_move -> "Draw"

move_annotation(g, m) ==
    LET my_copy == trial_copy(g, m)
        opp == opponent(g.active_player)
        is_check == is_seen_by(my_copy.board.seen[get_king_sq(my_copy.board.pieces, opp)],
                               g.active_player)
    IN  annotate(is_check, has_legal_moves(my_copy))

\* ---- the places where the code unwraps or panics -----------------------
\* add_pawn_moves unwraps push_sq for every pawn of the mover, and double_sq
\* for an unmoved one whose push square is empty and not on the last rank
pawn_unwrap_fails(g) ==
    \E s \in Squares :
        /\ g.board.pieces[s].owner = g.active_player
        /\ g.board.pieces[s].name = "Pawn"
        /\ LET push_sq == add_offset(s, 0, forward(g.active_player))
           IN  \/ push_sq = NoSq
               \/ /\ g.board.pieces[push_sq] = NoPiece
                  /\ rank(push_sq) # promotion_rank(g.active_player)
                  /\ ~g.board.pieces[s].moved
                  /\ add_offset(push_sq, 0, forward(g.active_player)) = NoSq

\* ChessBoard::make_move unwraps the piece of the origin of a Move, a Capture
\* and an EnPassant, and the pieces of both squares of a castling
board_unwrap_fails(pieces, m, player) ==
    CASE m.kind \in {"Move", "Capture", "EnPassant"} -> pieces[m.id] = NoPiece
      [] m.kind = "ShortCastle" ->
            \/ pieces[SquareID(E, castle_rank(player))] = NoPiece
            \/ pieces[SquareID(H, castle_rank(player))] = NoPiece
      [] m.kind = "LongCastle" ->
            \/ pieces[SquareID(E, castle_rank(player))] = NoPiece
            \/ pieces[SquareID(A, castle_rank(player))] = NoPiece
      [] OTHER -> FALSE

\* ChessGameState::make_move unwraps the square a pawn's push of two passes
\* over, then calls ChessBoard::make_move
make_move_unwrap_fails(g, m) ==
    \/ /\ m.kind = "Move"
       /\ is_pawn_move(g, m)
       /\ file(m.target) = file(m.id) /\ abs(rank(m.target) - rank(m.id)) = 2
       /\ add_offset(m.id, 0, div_trunc(rank(m.target) - rank(m.id), 2)) = NoSq
    \/ board_unwrap_fails(g.board.pieces, m, g.active_player)

\* get_king_sq panics when the player has no king
king_missing(pieces, player) == get_king_sq(pieces, player) = NoSq

\* has_legal_moves: get_all_moves, and for every move a trial copy and the
\* lookup of a king on it
has_legal_moves_traps(g) ==
    \/ pawn_unwrap_fails(g)
    \/ \E m \in get_all_moves(g) :
          \/ make_move_unwrap_fails(g, m)
          \/ \E p \in Players :
                king_missing(move_pieces(g.board.pieces, m, g.active_player), p)

\* get_legal_moves: get_all_moves, and for every move a trial copy, the
\* lookup of the mover's king on it and, when that king is not seen, the
\* lookup of the other king and has_legal_moves on the copy
get_legal_moves_traps(g) ==
    \/ pawn_unwrap_fails(g)
    \/ \E m \in get_all_moves(g) :
          \/ make_move_unwrap_fails(g, m)
          \/ \E p \in Players :
                king_missing(move_pieces(g.board.pieces, m, g.active_player), p)
          \/ LET my_copy == trial_copy(g, m)
             IN  king_safe(g, my_copy) /\ has_legal_moves_traps(my_copy)

\* the moves of get_all_moves that pass the test of the mover's king
legal_chess_moves(g) == {m \in get_all_moves(g) : king_safe(g, trial_copy(g, m))}

get_legal_moves(g) ==
    {AnnotatedMove(m, move_annotation(g, m)) : m \in legal_chess_moves(g)}

\* ---- FEN ----------------------------------------------------------------
\* A string is modelled by the sequence of its characters.
digit_chars == <<"0", "1", "2", "3", "4", "5", "6", "7", "8", "9">>
file_chars == <<"a", "b", "c", "d", "e", "f", "g", "h">>

\* usize::to_string : the decimal digits, most significant first
RECURSIVE to_string(_)
to_string(n) ==
    IF n < 10 THEN <<digit_chars[n + 1]>>
    ELSE to_string(n \div 10) \o <<digit_chars[(n % 10) + 1]>>

\* SquareID::to_str : the algebraic name, file letter then rank digit
to_str(id) == <<file_chars[file(id) + 1], digit_chars[rank(id) + 2]>>

\* ChessPiece::to_string
piece_to_string(piece) ==
    IF piece.owner = "White"
    THEN CASE piece.name = "Pawn" -> "P" [] piece.name = "Knight" -> "N"
           [] piece.name = "Bishop" -> "B" [] piece.name = "Rook" -> "R"
           [] piece.name = "Queen" -> "Q" [] piece.name = "King" -> "K"
    ELSE CASE piece.name = "Pawn" -> "p" [] piece.name = "Knight" -> "n"
           [] piece.name = "Bishop" -> "b" [] piece.name = "Rook" -> "r"
           [] piece.name = "Queen" -> "q" [] piece.name = "King" -> "k"

\* a loop that writes the count of empty squares and does not set it back to 0
RECURSIVE rank_fen_from_no_reset(_, _, _, _)
rank_fen_from_no_reset(pieces, r, f, empty_sq) ==
    IF f = 8 THEN (IF empty_sq > 0 THEN to_string(empty_sq) ELSE <<>>)
    ELSE LET piece == pieces[SquareID(f, r)]
         IN  IF piece # NoPiece
             THEN (IF empty_sq > 0 THEN to_string(empty_sq) ELSE <<>>)
                  \o <<piece_to_string(piece)>>
                  \o rank_fen_from_no_reset(pieces, r, f + 1, empty_sq)
             ELSE rank_fen_from_no_reset(pieces, r, f + 1, empty_sq + 1)

\* the loop of get_rank_fen from file f on, with empty_sq empty squares pending
RECURSIVE rank_fen_from(_, _, _, _)
rank_fen_from(pieces, r, f, empty_sq) ==
    IF f = 8 THEN (IF empty_sq > 0 THEN to_string(empty_sq) ELSE <<>>)
    ELSE LET piece == pieces[SquareID(f, r)]
         IN  IF piece # NoPiece
             THEN (IF empty_sq > 0 THEN to_string(empty_sq) ELSE <<>>)
                  \o <<piece_to_string(piece)>> \o rank_fen_from(pieces, r, f + 1, 0)
             ELSE rank_fen_from(pieces, r, f + 1, empty_sq + 1)

get_rank_fen(pieces, r) == rank_fen_from(pieces, r, 0, 0)

get_castling_fen(pieces) ==
    LET w_king == castling_valid(pieces, SquareID(E, One), "King")
        wk_rook == castling_valid(pieces, SquareID(H, One), "Rook")
        wq_rook == castling_valid(pieces, SquareID(A, One), "Rook")
        b_king == castling_valid(pieces, SquareID(E, Eight), "King")
        bk_rook == castling_valid(pieces, SquareID(H, Eight), "Rook")
        bq_rook == castling_valid(pieces, SquareID(A, Eight), "Rook")
    IN  (IF w_king /\ wk_rook THEN <<"K">> ELSE <<>>) \o
        (IF w_king /\ wq_rook THEN <<"Q">> ELSE <<>>) \o
        (IF b_king /\ bk_rook THEN <<"k">> ELSE <<>>) \o
        (IF b_king /\ bq_rook THEN <<"q">> ELSE <<>>)

\* the ranks 8 down to r, joined by "/"
RECURSIVE ranks_fen(_, _)
ranks_fen(pieces, r) ==
    get_rank_fen(pieces, r) \o
    (IF r # 0 THEN <<"/">> \o ranks_fen(pieces, r - 1) ELSE <<>>)

get_fen(g) ==
    ranks_fen(g.board.pieces, 7) \o
    (IF g.active_player = "White" THEN <<" ", "w", " ">> ELSE <<" ", "b", " ">>) \o
    get_castling_fen(g.board.pieces) \o
    <<" ">> \o
    (IF g.ep_square = NoSq THEN <<"-">> ELSE to_str(g.ep_square)) \o
    <<" ">> \o
    to_string(g.draw_clock) \o
    <<" ">> \o
    to_string(g.turn_num)

\* ------------------------------------------------------------------------
\* The caller: lines of play taken from the tests of chess_game.rs and lines
\* that lead to castling, en passant, promotion, stalemate and the
\* fifty-move draw.  Every move of a line is applied only if get_legal_moves
\* returns it.
\* ------------------------------------------------------------------------
\* tests::test_fen : e4 c5 Nf3
test_fen_line ==
    <<Move(SquareID(E, Two), SquareID(E, Four)),
      Move(SquareID(C, Seven), SquareID(C, Five)),
      Move(SquareID(G, One), SquareID(F, Three))>>

\* tests::basic_opening : e4 e5 Nf3 Nc6
basic_opening_line ==
    <<Move(SquareID(E, Two), SquareID(E, Four)),
      Move(SquareID(E, Seven), SquareID(E, Five)),
      Move(SquareID(G, One), SquareID(F, Three)),
      Move(SquareID(B, Eight), SquareID(C, Six))>>

\* tests::scholars_mate : e4 e5 Bc4 Bc5 Qf3 Nc6 Qxf7#
scholars_mate_line ==
    <<Move(SquareID(E, Two), SquareID(E, Four)),
      Move(SquareID(E, Seven), SquareID(E, Five)),
      Move(SquareID(F, One), SquareID(C, Four)),
      Move(SquareID(F, Eight), SquareID(C, Five)),
      Move(SquareID(D, One), SquareID(F, Three)),
      Move(SquareID(B, Eight), SquareID(C, Six)),
      Capture(SquareID(F, Three), SquareID(F, Seven))>>

\* tests::mate_in_2 : f3 e5 g4 Qh4#
mate_in_2_line ==
    <<Move(SquareID(F, Two), SquareID(F, Three)),
      Move(SquareID(E, Seven), SquareID(E, Five)),
      Move(SquareID(G, Two), SquareID(G, Four)),
      Move(SquareID(D, Eight), SquareID(H, Four))>>

\* both sides castle short
short_castle_line ==
    <<Move(SquareID(E, Two), SquareID(E, Four)),
      Move(SquareID(E, Seven), SquareID(E, Five)),
      Move(SquareID(G, One), SquareID(F, Three)),
      Move(SquareID(G, Eight), SquareID(F, Six)),
      Move(SquareID(F, One), SquareID(C, Four)),
      Move(SquareID(F, Eight), SquareID(C, Five)),
      ShortCastle,
      ShortCastle>>

\* both sides castle long
long_castle_line ==
    <<Move(SquareID(D, Two), SquareID(D, Four)),
      Move(SquareID(D, Seven), SquareID(D, Five)),
      Move(SquareID(B, One), SquareID(C, Three)),
      Move(SquareID(B, Eight), SquareID(C, Six)),
      Move(SquareID(C, One), SquareID(F, Four)),
      Move(SquareID(C, Eight), SquareID(F, Five)),
      Move(SquareID(D, One), SquareID(D, Two)),
      Move(SquareID(D, Eight), SquareID(D, Seven)),
      LongCastle,
      LongCastle>>

\* a white pawn takes en passant
en_passant_line ==
    <<Move(SquareID(E, Two), SquareID(E, Four)),
      Move(SquareID(A, Seven), SquareID(A, Six)),
      Move(SquareID(E, Four), SquareID(E, Five)),
      Move(SquareID(D, Seven), SquareID(D, Five)),
      EnPassant(SquareID(E, Five), SquareID(D, Six))>>

\* a white pawn reaches the eighth rank
promotion_line ==
    <<Move(SquareID(H, Two), SquareID(H, Four)),
      Move(SquareID(G, Seven), SquareID(G, Five)),
      Capture(SquareID(H, Four), SquareID(G, Five)),
      Move(SquareID(H, Seven), SquareID(H, Six)),
      Capture(SquareID(G, Five), SquareID(H, Six)),
      Move(SquareID(F, Eight), SquareID(G, Seven)),
      Capture(SquareID(H, Six), SquareID(G, Seven)),
      Move(SquareID(G, Eight), SquareID(F, Six)),
      Promotion(SquareID(G, Eight), "Queen")>>

\* the ten-move stalemate of Sam Loyd
stalemate_line ==
    <<Move(SquareID(E, Two), SquareID(E, Three)),
      Move(SquareID(A, Seven), SquareID(A, Five)),
      Move(SquareID(D, One), SquareID(H, Five)),
      Move(SquareID(A, Eight), SquareID(A, Six)),
      Capture(SquareID(H, Five), SquareID(A, Five)),
      Move(SquareID(H, Seven), SquareID(H, Five)),
      Move(SquareID(H, Two), SquareID(H, Four)),
      Move(SquareID(A, Six), SquareID(H, Six)),
      Capture(SquareID(A, Five), SquareID(C, Seven)),
      Move(SquareID(F, Seven), SquareID(F, Six)),
      Capture(SquareID(C, Seven), SquareID(D, Seven)),
      Move(SquareID(E, Eight), SquareID(F, Seven)),
      Capture(SquareID(D, Seven), SquareID(B, Seven)),
      Move(SquareID(D, Eight), SquareID(D, Three)),
      Capture(SquareID(B, Seven), SquareID(B, Eight)),
      Move(SquareID(D, Three), SquareID(H, Seven)),
      Capture(SquareID(B, Eight), SquareID(C, Eight)),
      Move(SquareID(F, Seven), SquareID(G, Six)),
      Move(SquareID(C, Eight), SquareID(E, Six))>>

\* both king knights go out and back: four quiet plies
knight_shuffle ==
    <<Move(SquareID(G, One), SquareID(F, Three)),
      Move(SquareID(G, Eight), SquareID(F, Six)),
      Move(SquareID(F, Three), SquareID(G, One)),
      Move(SquareID(F, Six), SquareID(G, Eight))>>

\* both queen knights go out and back, black first
queen_knight_shuffle ==
    <<Move(SquareID(B, Eight), SquareID(C, Six)),
      Move(SquareID(B, One), SquareID(C, Three)),
      Move(SquareID(C, Six), SquareID(B, Eight)),
      Move(SquareID(C, Three), SquareID(B, One))>>

\* the black king side is opened, white moved a pawn last
late_mate_prelude ==
    <<Move(SquareID(B, One), SquareID(C, Three)),
      Move(SquareID(F, Seven), SquareID(F, Six)),
      Move(SquareID(C, Three), SquareID(B, One)),
      Move(SquareID(G, Seven), SquareID(G, Five)),
      Move(SquareID(E, Two), SquareID(E, Four))>>

\* e4, then the black queen knight comes out at once
e4_nc6_line ==
    <<Move(SquareID(E, Two), SquareID(E, Four)),
      Move(SquareID(B, Eight), SquareID(C, Six))>>

\* the promotion line up to the move before the pawn is promoted
promotion_choice_line == SubSeq(promotion_line, 1, Len(promotion_line) - 1)

\* the short castling line up to the move before White castles
castle_choice_line == SubSeq(short_castle_line, 1, Len(short_castle_line) - 2)

\* the en passant line up to the move before the pawn takes
en_passant_choice_line == SubSeq(en_passant_line, 1, Len(en_passant_line) - 1)

\* a black pawn takes en passant
black_en_passant_line ==
    <<Move(SquareID(A, Two), SquareID(A, Three)),
      Move(SquareID(E, Seven), SquareID(E, Five)),
      Move(SquareID(A, Three), SquareID(A, Four)),
      Move(SquareID(E, Five), SquareID(E, Four)),
      Move(SquareID(D, Two), SquareID(D, Four)),
      EnPassant(SquareID(E, Four), SquareID(D, Three))>>

\* both king's rooks leave their corners and come back, then both kings
\* leave their squares and come back
return_home_line ==
    <<Move(SquareID(H, Two), SquareID(H, Four)),
      Move(SquareID(H, Seven), SquareID(H, Five)),
      Move(SquareID(H, One), SquareID(H, Three)),
      Move(SquareID(H, Eight), SquareID(H, Six)),
      Move(SquareID(H, Three), SquareID(H, One)),
      Move(SquareID(H, Six), SquareID(H, Eight)),
      Move(SquareID(E, Two), SquareID(E, Four)),
      Move(SquareID(E, Seven), SquareID(E, Five)),
      Move(SquareID(E, One), SquareID(E, Two)),
      Move(SquareID(E, Eight), SquareID(E, Seven)),
      Move(SquareID(E, Two), SquareID(E, One)),
      Move(SquareID(E, Seven), SquareID(E, Eight))>>

\* White's king and king's rook are unmoved with f1 and g1 empty, and a
\* black bishop on a6 looks at f1
castle_seen_line ==
    <<Move(SquareID(E, Two), SquareID(E, Four)),
      Move(SquareID(B, Seven), SquareID(B, Six)),
      Move(SquareID(F, One), SquareID(E, Two)),
      Move(SquareID(C, Eight), SquareID(A, Six)),
      Move(SquareID(E, Two), SquareID(G, Four)),
      Move(SquareID(B, Eight), SquareID(C, Six)),
      Move(SquareID(G, One), SquareID(F, Three)),
      Move(SquareID(G, Eight), SquareID(F, Six))>>

RECURSIVE repeat(_, _)
repeat(s, n) == IF n = 0 THEN <<>> ELSE s \o repeat(s, n - 1)

\* fifty quiet plies from the starting position
fifty_line ==
    repeat(knight_shuffle, 12) \o
    <<Move(SquareID(G, One), SquareID(F, Three)), Move(SquareID(G, Eight), SquareID(F, Six))>>

\* fifty quiet plies, then the mate of tests::mate_in_2
draw_then_mate_line ==
    repeat(<<Move(SquareID(B, One), SquareID(C, Three)), Move(SquareID(B, Eight), SquareID(C, Six)),
             Move(SquareID(C, Three), SquareID(B, One)), Move(SquareID(C, Six), SquareID(B, Eight))>>, 12) \o
    <<Move(SquareID(B, One), SquareID(C, Three)), Move(SquareID(B, Eight), SquareID(C, Six))>> \o
    mate_in_2_line

\* a quiet queen move that mates on the fiftieth quiet ply
late_mate_line ==
    late_mate_prelude \o repeat(queen_knight_shuffle, 12) \o
    <<Move(SquareID(B, Eight), SquareID(C, Six)), Move(SquareID(D, One), SquareID(H, Five))>>

Lines ==
    <<test_fen_line, basic_opening_line, scholars_mate_line, mate_in_2_line,
      short_castle_line, long_castle_line, en_passant_line, promotion_line,
      stalemate_line, fifty_line, draw_then_mate_line, late_mate_line, e4_nc6_line,
      promotion_choice_line, castle_choice_line, en_passant_choice_line,
      black_en_passant_line, return_home_line, castle_seen_line>>

\* the number of moves the caller may choose freely after its line
MaxFree == 1

\* ------------------------------------------------------------------------
\* State
\* ------------------------------------------------------------------------
VARIABLES
    board,          \* ChessGameState.board : [pieces, seen]
    active_player,  \* ChessGameState.active_player
    result,         \* ChessGameState.result
    ep_square,      \* ChessGameState.ep_square
    draw_clock,     \* ChessGameState.draw_clock
    turn_num,       \* ChessGameState.turn_num
    last,           \* the AnnotatedMove of the latest make_move, NoMove before the first
    before,         \* the game without its board as it was before the latest make_move
    applied,        \* the number of make_move calls since new
    quiet,          \* the number of make_move calls since the latest pawn move or capture
    line,           \* the line the caller plays
    pos,            \* the number of moves of the line played
    free,           \* the number of freely chosen moves played
    before_pieces,  \* the piece placement as it was before the latest make_move
    origin,         \* per square, the identity of the piece on it (see start_origin)
    left_home,      \* the identities that have ever been off their starting square
    flagged,        \* the identities whose moved flag has ever been true
    trip            \* a knight's round trip made with ChessBoard::make_move alone

vars == <<board, active_player, result, ep_square, draw_clock, turn_num,
          last, before, applied, quiet, line, pos, free,
          before_pieces, origin, left_home, flagged, trip>>

NoMove == AnnotatedMove([kind |-> "-", id |-> NoSq, target |-> NoSq, name |-> "-"], "None")

\* the ChessGameState of the current state
game ==
    [board |-> board, active_player |-> active_player, result |-> result,
     ep_square |-> ep_square, draw_clock |-> draw_clock, turn_num |-> turn_num]

\* what the caller remembers of a game: everything but the board
scalars(g) ==
    [active_player |-> g.active_player, result |-> g.result, ep_square |-> g.ep_square,
     draw_clock |-> g.draw_clock, turn_num |-> g.turn_num]

\* a pawn move, a capture, an en passant or a promotion, read off the board
\* before the move
is_irreversible(m) ==
    \/ m.kind \in {"Capture", "EnPassant", "Promotion", "CapturePromotion"}
    \/ m.kind = "Move" /\ board.pieces[m.id].name = "Pawn"

\* The identity of a piece is the square it started the game on; a piece made
\* by a promotion has the identity of its pawn, marked promoted; an empty
\* square has NoId.
PieceId(s) == [sq |-> s, promoted |-> FALSE]

PromotedId(id) == [sq |-> id.sq, promoted |-> TRUE]

NoId == PieceId(NoSq)

start_origin == [s \in Squares |-> IF initial_piece(s) = NoPiece THEN NoId ELSE PieceId(s)]

\* the identities after a move, following the squares ChessBoard::make_move
\* writes
next_origin(o, m, player) ==
    CASE m.kind \in {"Move", "Capture"} ->
            [o EXCEPT ![m.id] = NoId, ![m.target] = o[m.id]]
      [] m.kind = "EnPassant" ->
            [o EXCEPT ![m.id] = NoId, ![m.target] = o[m.id],
                      ![SquareID(file(m.target), rank(m.id))] = NoId]
      [] m.kind = "ShortCastle" ->
            LET r == castle_rank(player)
            IN  [o EXCEPT ![SquareID(E, r)] = NoId, ![SquareID(G, r)] = o[SquareID(E, r)],
                          ![SquareID(H, r)] = NoId, ![SquareID(F, r)] = o[SquareID(H, r)]]
      [] m.kind = "LongCastle" ->
            LET r == castle_rank(player)
            IN  [o EXCEPT ![SquareID(E, r)] = NoId, ![SquareID(C, r)] = o[SquareID(E, r)],
                          ![SquareID(A, r)] = NoId, ![SquareID(D, r)] = o[SquareID(A, r)]]
      [] m.kind = "Promotion" ->
            LET id == IF player = "White" THEN SquareID(file(m.target), Seven)
                      ELSE SquareID(file(m.target), Two)
            IN  [o EXCEPT ![id] = NoId, ![m.target] = PromotedId(o[id])]
      [] m.kind = "CapturePromotion" ->
            [o EXCEPT ![m.id] = NoId, ![m.target] = PromotedId(o[m.id])]

\* the identities that started the game and are not on their starting square
off_home(o) == {start_origin[s] : s \in {x \in Squares : start_origin[x] # NoId /\ o[x] # PieceId(x)}}

\* the identities on the board whose piece has its moved flag set
with_flag(pieces, o) == {o[s] : s \in {x \in Squares : pieces[x] # NoPiece /\ pieces[x].moved}}

NoTrip == [stage |-> 0, a |-> NoSq, b |-> NoSq, start |-> <<>>]

Init ==
    /\ board = ChessGameState_new.board
    /\ active_player = ChessGameState_new.active_player
    /\ result = ChessGameState_new.result
    /\ ep_square = ChessGameState_new.ep_square
    /\ draw_clock = ChessGameState_new.draw_clock
    /\ turn_num = ChessGameState_new.turn_num
    /\ last = NoMove
    /\ before = scalars(ChessGameState_new)
    /\ applied = 0
    /\ quiet = 0
    /\ line \in 1..Len(Lines)
    /\ pos = 0
    /\ free = 0
    /\ before_pieces = ChessGameState_new.board.pieces
    /\ origin = start_origin
    /\ left_home = {}
    /\ flagged = {}
    /\ trip = NoTrip

\* ChessGameState::make_move(am) on the game of the current state
Apply(am) ==
    LET g == make_move(game, am)
    IN  /\ board' = g.board
        /\ active_player' = g.active_player
        /\ result' = g.result
        /\ ep_square' = g.ep_square
        /\ draw_clock' = g.draw_clock
        /\ turn_num' = g.turn_num
        /\ last' = am
        /\ before' = scalars(game)
        /\ applied' = applied + 1
        /\ quiet' = IF is_irreversible(am.chess_move) THEN 0 ELSE quiet + 1
        /\ before_pieces' = board.pieces
        /\ origin' = next_origin(origin, am.chess_move, active_player)
        /\ left_home' = left_home \cup off_home(origin')
        /\ flagged' = flagged \cup with_flag(g.board.pieces, origin')
        /\ trip' = trip

\* the caller applies the next move of its line, annotated by get_legal_moves
LineMove ==
    /\ trip.stage = 0
    /\ pos < Len(Lines[line])
    /\ \E am \in get_legal_moves(game) :
          /\ am.chess_move = Lines[line][pos + 1]
          /\ Apply(am)
    /\ pos' = pos + 1
    /\ UNCHANGED <<line, free>>

\* the caller applies any move get_legal_moves returns
FreeMove ==
    /\ trip.stage = 0
    /\ pos = Len(Lines[line])
    /\ free < MaxFree
    /\ \E am \in get_legal_moves(game) : Apply(am)
    /\ free' = free + 1
    /\ UNCHANGED <<line, pos>>

Next == LineMove \/ FreeMove

Spec == Init /\ [][Next]_vars

\* ---- the board used alone, as tests::test_initial_seen uses it ---------
\* a derived equality that compares the moved flag as well
piece_eq_derived(p, q) == p = q

\* PartialEq for ChessPiece: the moved flag is not compared
piece_eq(p, q) == p.owner = q.owner /\ p.name = q.name

\* the equality of two squares with the same id: the piece and the counters
square_eq(p, sq_seen, q, other_seen) ==
    piece_eq(p, q) /\ get_seen(sq_seen) = get_seen(other_seen)

\* the derived PartialEq of ChessBoard: all 64 squares are equal
board_eq(b, other) ==
    \A s \in Squares : square_eq(b.pieces[s], b.seen[s], other.pieces[s], other.seen[s])

\* the squares a knight on id can go to with a Move
quiet_knight_targets(pieces, id) ==
    {t \in offset_targets(id, knight_offsets) : pieces[t] = NoPiece}

\* board.make_move(Move(a, b), owner) for a knight on a and an empty b
KnightOut ==
    /\ trip.stage = 0
    /\ \E a \in {s \in Squares : board.pieces[s].name = "Knight"} :
         \E b \in quiet_knight_targets(board.pieces, a) :
            /\ board' = board_make_move(board, Move(a, b), board.pieces[a].owner)
            /\ trip' = [stage |-> 1, a |-> a, b |-> b, start |-> board]
    /\ UNCHANGED <<active_player, result, ep_square, draw_clock, turn_num, last, before,
                   applied, quiet, line, pos, free, before_pieces, origin, left_home, flagged>>

\* board.make_move(Move(b, a), owner) for the knight that went from a to b
KnightBack ==
    /\ trip.stage = 1
    /\ board' = board_make_move(board, Move(trip.b, trip.a), board.pieces[trip.b].owner)
    /\ trip' = [trip EXCEPT !.stage = 2]
    /\ UNCHANGED <<active_player, result, ep_square, draw_clock, turn_num, last, before,
                   applied, quiet, line, pos, free, before_pieces, origin, left_home, flagged>>

BoardNext == LineMove \/ KnightOut \/ KnightBack

\* ---- the caller that only plays its line -------------------------------
LineNext == LineMove

LineSpec == Init /\ [][LineNext]_vars

BoardSpec == Init /\ [][BoardNext]_vars

\* ------------------------------------------------------------------------
\* Properties
\* ------------------------------------------------------------------------
count_kings(pieces, player) == Cardinality({i \in Squares : is_king_of(pieces, i, player)})

\* the player who made the latest move
mover == before.active_player

\* the king of the player to move is seen by the other player
in_check ==
    is_seen_by(board.seen[get_king_sq(board.pieces, active_player)], opponent(active_player))

\* C1: whenever result is set (a win, a draw, also the draw of the fifty-move
\* rule), get_legal_moves returns no move.
C1_ResultSetNoLegalMoves == result # "None" => get_legal_moves(game) = {}

\* C2: after every applied move of get_legal_moves the board holds exactly
\* one white and one black king, and the king of the player who moved is not
\* seen by the opponent.
C2_KingsPresentMoverSafe ==
    applied > 0 =>
        /\ count_kings(board.pieces, "White") = 1
        /\ count_kings(board.pieces, "Black") = 1
        /\ get_seen(board.seen[get_king_sq(board.pieces, mover)])[IF mover = "White" THEN 2 ELSE 1] = 0

\* a move that gives check was applied and left the mover's own king unseen
C2_Witness ==
    /\ applied > 0
    /\ in_check
    /\ count_kings(board.pieces, mover) = 1
    /\ not_seen_by(board.seen[get_king_sq(board.pieces, mover)], opponent(mover))

\* C3: a move returned for a position with result unset and halfmove clock
\* below 50 is annotated CheckMate exactly when after it the opponent king is
\* attacked and the opponent has no legal reply, Draw exactly when the king
\* is not attacked and there is no reply, Check exactly when the king is
\* attacked and a reply exists, None otherwise.
C3_AnnotationExact ==
    (applied > 0 /\ before.result = "None" /\ before.draw_clock < 50) =>
        LET has_reply == \E m \in get_all_moves(game) : king_safe(game, trial_copy(game, m))
        IN  /\ last.annotation = "CheckMate" <=> (in_check /\ ~has_reply)
            /\ last.annotation = "Draw" <=> (~in_check /\ ~has_reply)
            /\ last.annotation = "Check" <=> (in_check /\ has_reply)
            /\ last.annotation = "None" <=> (~in_check /\ has_reply)

\* a stalemate: the move was annotated Draw, the king to move is not attacked
\* and no legal move exists
C3_Witness ==
    /\ applied > 0 /\ before.result = "None" /\ before.draw_clock < 50
    /\ last.annotation = "Draw"
    /\ ~in_check
    /\ legal_chess_moves(game) = {}

\* the fields of a string, split at every space
RECURSIVE split_from(_, _, _)
split_from(str, i, field) ==
    IF i > Len(str) THEN <<field>>
    ELSE IF str[i] = " " THEN <<field>> \o split_from(str, i + 1, <<>>)
    ELSE split_from(str, i + 1, Append(field, str[i]))

fields(str) == split_from(str, 1, <<>>)

\* king and rook of a wing stand unmoved on their home squares
castling_right(player, rook_file) ==
    LET r == castle_rank(player)
        king == board.pieces[SquareID(E, r)]
        rook == board.pieces[SquareID(rook_file, r)]
    IN  /\ king.name = "King" /\ king.owner = player /\ ~king.moved
        /\ rook.name = "Rook" /\ rook.owner = player /\ ~rook.moved

castling_letters ==
    (IF castling_right("White", H) THEN <<"K">> ELSE <<>>) \o
    (IF castling_right("White", A) THEN <<"Q">> ELSE <<>>) \o
    (IF castling_right("Black", H) THEN <<"k">> ELSE <<>>) \o
    (IF castling_right("Black", A) THEN <<"q">> ELSE <<>>)

\* C4: get_fen yields six fields separated by single spaces; the third is
\* the concatenation of K, Q, k, q for the castling rights that remain, and
\* "-" when none remains.
C4_FenSixFieldsCastling ==
    LET fs == fields(get_fen(game))
    IN  /\ Len(fs) = 6
        /\ \A i \in 1..Len(fs) : fs[i] # <<>>
        /\ fs[3] = IF castling_letters = <<>> THEN <<"-">> ELSE castling_letters

white_pawn_on_e4 ==
    /\ board.pieces[SquareID(E, Four)] = ChessPiece("White", "Pawn", TRUE)
    /\ board.pieces[SquareID(E, Two)] = NoPiece

black_pawn_on_e5 ==
    /\ board.pieces[SquareID(E, Five)] = ChessPiece("Black", "Pawn", TRUE)
    /\ board.pieces[SquareID(E, Seven)] = NoPiece

after_e4 == applied = 1 /\ last.chess_move = Move(SquareID(E, Two), SquareID(E, Four))

after_e4_nc6 ==
    /\ applied = 2 /\ white_pawn_on_e4
    /\ last.chess_move = Move(SquareID(B, Eight), SquareID(C, Six))

after_e4_e5_nf3 ==
    /\ applied = 3 /\ white_pawn_on_e4 /\ black_pawn_on_e5
    /\ last.chess_move = Move(SquareID(G, One), SquareID(F, Three))

after_e4_e5_nf3_nc6 ==
    /\ applied = 4 /\ white_pawn_on_e4 /\ black_pawn_on_e5
    /\ board.pieces[SquareID(F, Three)] = ChessPiece("White", "Knight", TRUE)
    /\ last.chess_move = Move(SquareID(B, Eight), SquareID(C, Six))

\* C5 as stated: after e2-e4 the counters of e5 are [1, 0], and after then
\* b8-c6 they are [1, 1].
C5_SeenE5AsStated ==
    /\ after_e4 => get_seen(board.seen[SquareID(E, Five)]) = <<1, 0>>
    /\ after_e4_nc6 => get_seen(board.seen[SquareID(E, Five)]) = <<1, 1>>

\* C5 amended: after e2-e4 the counters of e5 are [0, 0] (the e4 pawn sees
\* d5 and f5 only) and after then b8-c6 they are [0, 1]; after e2-e4, e7-e5,
\* g1-f3 they are [1, 0] (the f3 knight alone sees e5) and after then b8-c6
\* they are [1, 1].
C5_SeenE5 ==
    /\ after_e4 => get_seen(board.seen[SquareID(E, Five)]) = <<0, 0>>
    /\ after_e4_nc6 => get_seen(board.seen[SquareID(E, Five)]) = <<0, 1>>
    /\ after_e4_e5_nf3 => get_seen(board.seen[SquareID(E, Five)]) = <<1, 0>>
    /\ after_e4_e5_nf3_nc6 => get_seen(board.seen[SquareID(E, Five)]) = <<1, 1>>

C5_Witness ==
    after_e4_e5_nf3_nc6 /\ get_seen(board.seen[SquareID(E, Five)]) = <<1, 1>>

\* the latest move was a quiet move of a pawn over two ranks
double_push ==
    /\ last.chess_move.kind = "Move"
    /\ board.pieces[last.chess_move.target].name = "Pawn"
    /\ abs(rank(last.chess_move.target) - rank(last.chess_move.id)) = 2

\* C6: after every make_move the en passant square is set exactly when the
\* move was a quiet pawn move of two ranks; it is then the square the pawn
\* skipped, on rank 3 after a move of White and rank 6 after a move of
\* Black, and the square beyond it holds the pawn that just moved.
C6_EpSquare ==
    applied > 0 =>
        /\ ep_square # NoSq <=> double_push
        /\ ep_square # NoSq =>
              LET m == last.chess_move
                  beyond == add_offset(ep_square, 0, forward(mover))
              IN  /\ file(ep_square) = file(m.id)
                  /\ 2 * rank(ep_square) = rank(m.id) + rank(m.target)
                  /\ rank(ep_square) = IF mover = "White" THEN Three ELSE Six
                  /\ beyond = m.target
                  /\ board.pieces[beyond] = ChessPiece(mover, "Pawn", TRUE)

\* Black has just pushed a pawn two ranks
C6_Witness ==
    /\ applied > 0 /\ mover = "Black" /\ double_push
    /\ ep_square # NoSq /\ rank(ep_square) = Six

\* C7: the halfmove clock is the number of make_move calls since the latest
\* pawn move, capture, en passant or promotion: such a move sets it to 0,
\* every other move, castling included, adds exactly 1.
C7_HalfmoveClock ==
    /\ draw_clock = quiet
    /\ applied > 0 => draw_clock = IF quiet = 0 THEN 0 ELSE before.draw_clock + 1

\* a castling move has added 1 to a running clock
C7_Witness ==
    /\ last.chess_move.kind \in {"ShortCastle", "LongCastle"}
    /\ before.draw_clock > 0
    /\ draw_clock = before.draw_clock + 1

\* C8: a move annotated CheckMate sets result to the win of the mover, also
\* when it brings the halfmove clock to 50 or more; a move annotated Draw
\* sets result to Draw; a move annotated None or Check leaves result as it
\* was (unset when it was unset) while the clock stays below 50.
C8_AnnotationSetsResult ==
    applied > 0 =>
        /\ last.annotation = "CheckMate" =>
              result = IF mover = "White" THEN "WhiteWin" ELSE "BlackWin"
        /\ last.annotation = "Draw" => result = "Draw"
        /\ (last.annotation \in {"None", "Check"} /\ draw_clock < 50) =>
              result = before.result

\* a mate given by the fiftieth quiet ply is a win
C8_Witness ==
    /\ applied > 0 /\ last.annotation = "CheckMate" /\ before.result = "None"
    /\ draw_clock >= 50
    /\ result = "WhiteWin" /\ mover = "White"

\* C9: after a move annotated None or Check that was made with result unset,
\* result is Draw exactly when the new halfmove clock is at least 50; no
\* state has result unset and the clock at 50 or more.
C9_FiftyMoveDraw ==
    /\ (applied > 0 /\ last.annotation \in {"None", "Check"} /\ before.result = "None") =>
          (result = "Draw" <=> draw_clock >= 50)
    /\ ~(result = "None" /\ draw_clock >= 50)

\* the fiftieth quiet ply has drawn the game
C9_Witness ==
    /\ applied > 0 /\ last.annotation \in {"None", "Check"} /\ before.result = "None"
    /\ draw_clock = 50 /\ before.draw_clock = 49
    /\ result = "Draw"

\* C10: every make_move flips the active player; the fullmove number goes up
\* by 1 with a move of Black and stays with a move of White: after n moves
\* White is to move iff n is even, and the fullmove number is 1 + n div 2.
C10_ActiveAndTurn ==
    /\ active_player = "White" <=> applied % 2 = 0
    /\ turn_num = 1 + (applied \div 2)
    /\ applied > 0 =>
          /\ active_player = opponent(mover)
          /\ turn_num = before.turn_num + (IF mover = "Black" THEN 1 ELSE 0)

\* Black has moved and the fullmove number went up
C10_Witness ==
    /\ applied > 0 /\ mover = "Black" /\ active_player = "White"
    /\ turn_num = before.turn_num + 1 /\ turn_num >= 3

\* C11: in every reachable state, the fresh starting board with its literal
\* counters included, the stored seen_by counters of all 64 squares equal the
\* counters obtained by recomputing the attack map from scratch from the
\* piece placement.
C11_SeenIsRecomputed ==
    LET recomputed == calc_seen(board.pieces)
    IN  \A s \in Squares : get_seen(board.seen[s]) = get_seen(recomputed[s])

\* the fresh starting board: its counters are the literals of
\* ChessSquare::initial, and c3 is seen by two pawns and a knight
C11_Witness ==
    /\ applied = 0 /\ trip.stage = 0
    /\ \A s \in Squares : get_seen(board.seen[s]) = initial_seen_pair(s)
    /\ get_seen(calc_seen(board.pieces)[SquareID(C, Three)]) = <<3, 0>>

\* the third field of get_fen when a castling letter is left, the empty
\* string when none is
castling_field == fields(get_fen(game))[3]

has_letter(c) ==
    LET cf == castling_field
    IN  \E i \in 1..Len(cf) : cf[i] = c

castling_letter(player, rook_file) ==
    IF player = "White" THEN (IF rook_file = H THEN "K" ELSE "Q")
    ELSE (IF rook_file = H THEN "k" ELSE "q")

\* the king or the rook of the wing has been off its starting square, by a
\* move, by castling or by being captured
has_left(player, rook_file) ==
    \/ PieceId(SquareID(E, castle_rank(player))) \in left_home
    \/ PieceId(SquareID(rook_file, castle_rank(player))) \in left_home

\* C12: after a rook has left its home corner (by a move, by castling or by
\* being captured there) the castling letter of its side and wing is absent
\* from get_fen in every later state, and after a king has moved or castled
\* both letters of its colour are absent in every later state, also when the
\* piece has come back to its home square.
C12_CastlingLetterStaysAbsent ==
    \A player \in Players : \A rook_file \in {A, H} :
        has_left(player, rook_file) => ~has_letter(castling_letter(player, rook_file))

\* White's king's rook has left h1 and stands on h1 again while the king
\* never moved: K is gone and Q is still there
C12_Witness ==
    /\ PieceId(SquareID(H, One)) \in left_home
    /\ origin[SquareID(H, One)] = PieceId(SquareID(H, One))
    /\ PieceId(SquareID(E, One)) \notin left_home
    /\ ~has_letter("K")
    /\ has_letter("Q")

\* C13: in no reachable state does a pawn stand on rank 1 or on rank 8.
C13_NoPawnOnLastRanks ==
    \A s \in Squares :
        rank(s) \in {One, Eight} => board.pieces[s].name # "Pawn"

\* a pawn has just reached its last rank: the piece chosen stands there, and
\* the square the pawn came from is empty
C13_Witness ==
    /\ applied > 0
    /\ last.chess_move.kind \in {"Promotion", "CapturePromotion"}
    /\ rank(last.chess_move.target) \in {One, Eight}
    /\ before_pieces[last.chess_move.target].name # "Pawn"
    /\ board.pieces[last.chess_move.target] = ChessPiece(mover, last.chess_move.name, TRUE)
    /\ \E s \in Squares :
          /\ before_pieces[s] = ChessPiece(mover, "Pawn", TRUE)
          /\ board.pieces[s] = NoPiece
          /\ rank(s) \in {Two, Seven}

\* C14: the moved flag is false for every piece in the starting position; in
\* every reachable state it is true for every piece that does not stand on
\* the square it started the game on (pieces made by a promotion and both
\* pieces of a castling included); it never goes from true back to false.
C14_MovedFlag ==
    /\ applied = 0 => \A s \in Squares : board.pieces[s] # NoPiece => ~board.pieces[s].moved
    /\ \A s \in Squares :
          (board.pieces[s] # NoPiece /\ origin[s] # PieceId(s)) => board.pieces[s].moved
    /\ \A s \in Squares :
          (board.pieces[s] # NoPiece /\ origin[s] \in flagged) => board.pieces[s].moved

\* a pawn has taken en passant, the one move whose code does not set the
\* flag: the pawn is off its starting square and has the flag from before
C14_Witness ==
    /\ applied > 0 /\ last.chess_move.kind = "EnPassant"
    /\ board.pieces[last.chess_move.target] = ChessPiece(mover, "Pawn", TRUE)
    /\ origin[last.chess_move.target] # PieceId(last.chess_move.target)
    /\ origin[last.chess_move.target] \in flagged

\* C15: for a board and a quiet knight move Move(a, b), applying Move(a, b)
\* and then Move(b, a) with the board's move routine yields a board equal to
\* the original under the equality that ignores moved flags (the same piece
\* on every square and the same seen_by counters); the board after the first
\* move alone is not equal to the original.
C15_KnightRoundTrip ==
    /\ trip.stage = 1 => ~board_eq(board, trip.start)
    /\ trip.stage = 2 => board_eq(board, trip.start)

\* tests::test_initial_seen: the knight of b1 went to c3 and back on a fresh
\* board; the board is equal to the fresh board though the knight now has
\* its moved flag
C15_Witness ==
    /\ trip.stage = 2
    /\ trip.start = ChessBoard_new
    /\ trip.a = SquareID(B, One) /\ trip.b = SquareID(C, Three)
    /\ board_eq(board, trip.start)
    /\ board.pieces[trip.a].moved /\ ~trip.start.pieces[trip.a].moved

\* the pieces of a string split at every sep
RECURSIVE split_on(_, _, _, _)
split_on(str, sep, i, field) ==
    IF i > Len(str) THEN <<field>>
    ELSE IF str[i] = sep THEN <<field>> \o split_on(str, sep, i + 1, <<>>)
    ELSE split_on(str, sep, i + 1, Append(field, str[i]))

is_digit(c) == \E n \in 0..9 : digit_chars[n + 1] = c

digit_value(c) == CHOOSE n \in 0..9 : digit_chars[n + 1] = c

\* the reading of a piece letter: upper case is White, lower case is Black
letter_name(c) ==
    CASE c \in {"P", "p"} -> "Pawn" [] c \in {"N", "n"} -> "Knight"
      [] c \in {"B", "b"} -> "Bishop" [] c \in {"R", "r"} -> "Rook"
      [] c \in {"Q", "q"} -> "Queen" [] c \in {"K", "k"} -> "King"
      [] OTHER -> "?"

letter_owner(c) ==
    IF c \in {"P", "N", "B", "R", "Q", "K"} THEN "White"
    ELSE IF c \in {"p", "n", "b", "r", "q", "k"} THEN "Black"
    ELSE "?"

\* the squares a rank string stands for, file a first: a digit stands for
\* that many empty squares, a letter for one piece
RECURSIVE decode_rank(_, _)
decode_rank(str, i) ==
    IF i > Len(str) THEN <<>>
    ELSE IF is_digit(str[i])
    THEN [k \in 1..digit_value(str[i]) |-> <<"-", "-">>] \o decode_rank(str, i + 1)
    ELSE <<<<letter_owner(str[i]), letter_name(str[i])>>>> \o decode_rank(str, i + 1)

\* the rank strings of the first field of get_fen, rank 8 first
fen_ranks == split_on(fields(get_fen(game))[1], "/", 1, <<>>)

\* C16: the first field of get_fen determines the piece placement: read
\* rank 8 first and file a first, split at "/", with a digit 1..8 for each
\* maximal run of empty squares, an upper case letter for a white piece and
\* a lower case letter for a black piece, it decodes to the owner and the
\* kind of the piece on each of the 64 squares; every rank decodes to
\* exactly 8 squares, and no two digits are adjacent.
C16_FenPlacementDecodes ==
    LET rs == fen_ranks
    IN  /\ Len(rs) = 8
        /\ \A k \in 1..Len(rs) :
              LET str == rs[k]
                  squares == decode_rank(str, 1)
              IN  /\ Len(squares) = 8
                  /\ \A f \in 1..Len(squares) :
                        LET piece == board.pieces[SquareID(f - 1, 8 - k)]
                        IN  squares[f] = <<piece.owner, piece.name>>
                  /\ \A i \in 1..Len(str) : is_digit(str[i]) => digit_value(str[i]) \in 1..8
                  /\ \A i \in 1..(Len(str) - 1) : ~(is_digit(str[i]) /\ is_digit(str[i + 1]))

\* after e2-e4: a rank with a piece between two runs of empty squares, a rank
\* with one empty square among pieces, and an empty rank
C16_Witness ==
    /\ after_e4
    /\ Len(fen_ranks) = 8
    /\ fen_ranks[5] = <<"4", "P", "3">>
    /\ fen_ranks[7] = <<"P", "P", "P", "P", "1", "P", "P", "P">>
    /\ fen_ranks[4] = <<"8">>
    /\ decode_rank(fen_ranks[5], 1)[5] = <<"White", "Pawn">>

after_e4_e5 ==
    /\ applied = 2 /\ white_pawn_on_e4 /\ black_pawn_on_e5
    /\ last.chess_move = Move(SquareID(E, Seven), SquareID(E, Five))

\* the number of moves get_legal_moves returns for the current game
legal_move_count == Cardinality(get_legal_moves(game))

\* C17: get_legal_moves returns exactly 20 moves in the starting position,
\* and along e2-e4, e7-e5, g1-f3, b8-c6 it returns 20, 29, 29 and 27 moves
\* after the first, second, third and fourth make_move.
C17_LegalMoveCounts ==
    /\ applied = 0 => legal_move_count = 20
    /\ after_e4 => legal_move_count = 20
    /\ after_e4_e5 => legal_move_count = 29
    /\ after_e4_e5_nf3 => legal_move_count = 29
    /\ after_e4_e5_nf3_nc6 => legal_move_count = 27

\* the end of tests::basic_opening: four moves made, 27 moves to choose from
C17_Witness ==
    /\ after_e4_e5_nf3_nc6
    /\ before_pieces[SquareID(B, Eight)] = ChessPiece("Black", "Knight", FALSE)
    /\ legal_move_count = 27

\* the directions of the rays of a bishop, a rook or a queen
ray_dirs(name) ==
    CASE name = "Bishop" -> bishop_dirs
      [] name = "Rook" -> rook_dirs
      [] name = "Queen" -> bishop_dirs \cup rook_dirs
      [] OTHER -> {}

\* the squares from id outward in direction dir with only empty squares
\* between them and id: every square up to and including the first occupied
\* one, and none beyond it
ray_squares(pieces, id, dir) ==
    LET step(i) == add_offset(id, i * dir[1], i * dir[2])
        reached == {i \in 1..7 : step(i) # NoSq /\ \A j \in 1..(i - 1) : pieces[step(j)] = NoPiece}
    IN  {step(i) : i \in reached}

\* the squares the piece on id attacks, the rays taken from ray_squares
attacked_from(pieces, id) ==
    IF pieces[id].name \in {"Bishop", "Rook", "Queen"}
    THEN UNION {ray_squares(pieces, id, d) : d \in ray_dirs(pieces[id].name)}
    ELSE piece_seen(pieces, id)

\* C18: in the recomputation of the attack map, for every bishop, rook and
\* queen and each direction of its rays, the squares whose counter goes up
\* are exactly the squares from the piece outward up to and including the
\* first occupied square, whatever piece stands there, a king included, and
\* none beyond it; each goes up by exactly 1.
C18_RayStopsAtFirstPiece ==
    LET pieces == board.pieces
        occupied == {s \in Squares : pieces[s] # NoPiece}
        attacks == UNION {{<<s, t>> : t \in attacked_from(pieces, s)} : s \in occupied}
        rays == UNION {{<<s, d>> : d \in ray_dirs(pieces[s].name)} : s \in occupied}
        \* one <<piece, direction, square>> per increment of los_seen
        adds == UNION {{<<r[1], r[2], t>> : t \in los_seen(pieces, r[1], r[2], 1)} : r \in rays}
    IN  /\ \A r \in rays :
              {x[3] : x \in {y \in adds : y[1] = r[1] /\ y[2] = r[2]}}
                  = ray_squares(pieces, r[1], r[2])
        \* no square is reached by two rays of one piece
        /\ Cardinality(adds) = Cardinality({<<x[1], x[3]>> : x \in adds})
        /\ \A t \in Squares : \A p \in Players :
              board.seen[t][p] =
                  Cardinality({x \in attacks : x[2] = t /\ pieces[x[1]].owner = p})

\* after a move, a ray of a bishop, a rook or a queen ends on a king with a
\* square of the board behind it: the king's square is counted, the square
\* behind it is not reached by the ray
C18_Witness ==
    /\ applied > 0
    /\ \E s \in Squares : \E d \in ray_dirs(board.pieces[s].name) :
          \E t \in los_seen(board.pieces, s, d, 1) :
             /\ board.pieces[t].name = "King"
             /\ add_offset(t, d[1], d[2]) # NoSq
             /\ add_offset(t, d[1], d[2]) \notin los_seen(board.pieces, s, d, 1)
             /\ board.seen[t][board.pieces[s].owner] >= 1

\* the square of the given file on the back rank of the player to move
back_sq(f) == SquareID(f, castle_rank(active_player))

\* the square is empty and no piece of the opponent of the player to move
\* sees it
free_and_safe(s) ==
    board.pieces[s] = NoPiece /\ board.seen[s][opponent(active_player)] = 0

\* the mover's own unmoved king on e, not seen, and the mover's own unmoved
\* rook on rook_file
castle_pieces_ready(rook_file) ==
    /\ board.pieces[back_sq(E)] = ChessPiece(active_player, "King", FALSE)
    /\ board.seen[back_sq(E)][opponent(active_player)] = 0
    /\ board.pieces[back_sq(rook_file)] = ChessPiece(active_player, "Rook", FALSE)

\* get_legal_moves returns m: get_all_moves generates it and the trial copy
\* passes the filter (membership in legal_chess_moves, for one move)
is_legal(m) == m \in get_all_moves(game) /\ king_safe(game, trial_copy(game, m))

\* C19: get_legal_moves contains ShortCastle (LongCastle) only if the
\* mover's own king stands unmoved on the e-file of its back rank and is not
\* seen by the opponent, the mover's own rook stands unmoved on the h-file
\* (a-file) of that rank, the squares on the f- and g-files (d- and c-files)
\* of it are empty and not seen by the opponent, and for LongCastle also the
\* square on the b-file is empty, seen or not; applying the move puts the
\* king on the g-file (c-file) and the rook on the f-file (d-file), both with
\* the moved flag set.
C19_Castling ==
    /\ is_legal(ShortCastle) =>
          /\ castle_pieces_ready(H)
          /\ free_and_safe(back_sq(F)) /\ free_and_safe(back_sq(G))
    /\ is_legal(LongCastle) =>
          /\ castle_pieces_ready(A)
          /\ free_and_safe(back_sq(D)) /\ free_and_safe(back_sq(C))
          /\ board.pieces[back_sq(B)] = NoPiece
    /\ (applied > 0 /\ last.chess_move = ShortCastle) =>
          /\ board.pieces[SquareID(G, castle_rank(mover))] = ChessPiece(mover, "King", TRUE)
          /\ board.pieces[SquareID(F, castle_rank(mover))] = ChessPiece(mover, "Rook", TRUE)
    /\ (applied > 0 /\ last.chess_move = LongCastle) =>
          /\ board.pieces[SquareID(C, castle_rank(mover))] = ChessPiece(mover, "King", TRUE)
          /\ board.pieces[SquareID(D, castle_rank(mover))] = ChessPiece(mover, "Rook", TRUE)

\* White has castled long and Black, to move, can castle long as well: the
\* white king is on c1 and the rook on d1, and the black king and the rook
\* of a8 are unmoved with b8, c8 and d8 empty
C19_Witness ==
    /\ applied > 0 /\ last.chess_move = LongCastle /\ mover = "White"
    /\ before_pieces[SquareID(E, One)] = ChessPiece("White", "King", FALSE)
    /\ before_pieces[SquareID(A, One)] = ChessPiece("White", "Rook", FALSE)
    /\ board.pieces[SquareID(C, One)] = ChessPiece("White", "King", TRUE)
    /\ board.pieces[SquareID(D, One)] = ChessPiece("White", "Rook", TRUE)
    /\ is_legal(LongCastle)
    /\ castle_pieces_ready(A)
    /\ board.pieces[back_sq(B)] = NoPiece

\* the EnPassant moves get_legal_moves returns for the current game
legal_en_passants == {m \in get_all_moves(game) : m.kind = "EnPassant" /\ is_legal(m)}

\* the square beside the origin of an EnPassant, on the file of its target
taken_sq(m) == SquareID(file(m.target), rank(m.id))

\* the latest make_move was a pawn's push of two squares that ended on s
double_pushed_to(s) ==
    /\ applied > 0
    /\ last.chess_move.kind = "Move" /\ last.chess_move.target = s
    /\ file(last.chess_move.id) = file(s)
    /\ abs(rank(s) - rank(last.chess_move.id)) = 2
    /\ before_pieces[last.chess_move.id].name = "Pawn"

\* C20: whenever get_legal_moves returns EnPassant(from, to), to is empty and
\* equals the en passant square, and the square (file of to, rank of from)
\* holds an enemy pawn that made a push of two squares on the immediately
\* preceding make_move; applying the move leaves the mover's pawn on to,
\* empties from and (file of to, rank of from), and changes the piece of no
\* other square.
C20_EnPassant ==
    /\ \A m \in legal_en_passants :
          /\ board.pieces[m.target] = NoPiece
          /\ m.target = ep_square
          /\ board.pieces[taken_sq(m)].owner = opponent(active_player)
          /\ board.pieces[taken_sq(m)].name = "Pawn"
          /\ double_pushed_to(taken_sq(m))
    /\ (applied > 0 /\ last.chess_move.kind = "EnPassant") =>
          LET m == last.chess_move
          IN  /\ before_pieces[m.id] = ChessPiece(mover, "Pawn", TRUE)
              /\ board.pieces[m.target] = before_pieces[m.id]
              /\ board.pieces[m.id] = NoPiece
              /\ board.pieces[taken_sq(m)] = NoPiece
              /\ \A s \in Squares \ {m.id, m.target, taken_sq(m)} :
                    board.pieces[s] = before_pieces[s]

\* a black pawn has taken en passant: it stands on the square the white
\* pawn passed over, and the white pawn is gone from beside its origin
C20_Witness ==
    /\ applied > 0 /\ last.chess_move.kind = "EnPassant" /\ mover = "Black"
    /\ before.ep_square = last.chess_move.target
    /\ before_pieces[taken_sq(last.chess_move)] = ChessPiece("White", "Pawn", TRUE)
    /\ before_pieces[last.chess_move.target] = NoPiece
    /\ board.pieces[last.chess_move.target] = ChessPiece("Black", "Pawn", TRUE)
    /\ board.pieces[taken_sq(last.chess_move)] = NoPiece
    /\ board.pieces[last.chess_move.id] = NoPiece

\* the last rank of the player to move, and the rank its pawns promote from
last_rank == IF active_player = "White" THEN Eight ELSE One

pre_last_rank == IF active_player = "White" THEN Seven ELSE Two

\* the four kinds a pawn can become
promotion_kinds == {"Knight", "Bishop", "Rook", "Queen"}

\* C21: a pawn step onto the mover's last rank (rank 8 for White, rank 1 for
\* Black) is generated only as promotion moves, four per destination (knight,
\* bishop, rook, queen), never as a plain Move or Capture; applying
\* Promotion(to, kind) empties the square on the file of to and on rank 7 for
\* White, rank 2 for Black, which held the mover's pawn, and puts a piece of
\* that kind owned by the mover with the moved flag set on to.
C21_Promotion ==
    LET moves == get_all_moves(game)
        pieces == board.pieces
    IN  /\ \A m \in moves :
              (m.kind \in {"Move", "Capture"} /\ pieces[m.id].name = "Pawn")
                  => rank(m.target) # last_rank
        /\ \A m \in moves :
              m.kind = "Promotion" =>
                  /\ rank(m.target) = last_rank
                  /\ m.name \in promotion_kinds
                  /\ pieces[SquareID(file(m.target), pre_last_rank)]
                        = ChessPiece(active_player, "Pawn", TRUE)
                  /\ \A n \in promotion_kinds : Promotion(m.target, n) \in moves
        /\ \A m \in moves :
              m.kind = "CapturePromotion" =>
                  /\ rank(m.target) = last_rank /\ rank(m.id) = pre_last_rank
                  /\ m.name \in promotion_kinds
                  /\ pieces[m.id] = ChessPiece(active_player, "Pawn", TRUE)
                  /\ \A n \in promotion_kinds : CapturePromotion(m.id, m.target, n) \in moves
        /\ \A s \in Squares :
              (pieces[s].name = "Pawn" /\ pieces[s].owner = active_player
                    /\ rank(s) = pre_last_rank) =>
                  (pieces[SquareID(file(s), last_rank)] = NoPiece
                      => Promotion(SquareID(file(s), last_rank), "Queen") \in moves)
        /\ (applied > 0 /\ last.chess_move.kind = "Promotion") =>
              LET to == last.chess_move.target
                  from == SquareID(file(to), IF mover = "White" THEN Seven ELSE Two)
              IN  /\ before_pieces[from] = ChessPiece(mover, "Pawn", TRUE)
                  /\ pieces[from] = NoPiece
                  /\ pieces[to] = ChessPiece(mover, last.chess_move.name, TRUE)

\* a white pawn has stepped from g7 to g8 and become a knight
C21_Witness ==
    /\ applied > 0 /\ mover = "White"
    /\ last.chess_move = Promotion(SquareID(G, Eight), "Knight")
    /\ before_pieces[SquareID(G, Seven)] = ChessPiece("White", "Pawn", TRUE)
    /\ before_pieces[SquareID(G, Eight)] = NoPiece
    /\ board.pieces[SquareID(G, Seven)] = NoPiece
    /\ board.pieces[SquareID(G, Eight)] = ChessPiece("White", "Knight", TRUE)

\* C22: once result is set it never changes: for every sequence of make_move
\* calls with moves returned by get_legal_moves, a state whose result is set
\* is followed only by states with the same result; a fifty-move draw is
\* never replaced by a win.
C22_ResultNeverChanges ==
    (applied > 0 /\ before.result # "None") => result = before.result

\* C23: in no state reached from new by make_move calls with moves returned
\* by get_legal_moves does get_legal_moves or make_move trap: the king
\* lookup finds a king for both players, also on every trial copy made for
\* the legality test and for the reply test, the origin of every move is
\* occupied, both squares of a castling hold a piece, and every pawn asked
\* for its forward square, and every unmoved pawn asked for the square of its
\* push of two, has that square on the board.
C23_NoTrap ==
    /\ ~king_missing(board.pieces, "White")
    /\ ~king_missing(board.pieces, "Black")
    /\ ~get_legal_moves_traps(game)

\* a position with a castling, a push of two and a capture among its moves,
\* and a king in check on one of the trial copies of the reply test
C23_Witness ==
    /\ applied > 0
    /\ ~get_legal_moves_traps(game)
    /\ ShortCastle \in get_all_moves(game)
    /\ \E m \in get_all_moves(game) :
          /\ m.kind = "Move" /\ board.pieces[m.id].name = "Pawn"
          /\ abs(rank(m.target) - rank(m.id)) = 2
    /\ \E m \in get_all_moves(game) : m.kind = "Capture"
    /\ \E m \in get_all_moves(game) :
          LET my_copy == trial_copy(game, m)
          IN  /\ king_safe(game, my_copy)
              /\ \E r \in get_all_moves(my_copy) : ~king_safe(my_copy, trial_copy(my_copy, r))

\* the steps the pawn on s has left to its last rank
steps_left(pieces, s) ==
    IF pieces[s].owner = "White" THEN Eight - rank(s) ELSE rank(s) - One

\* the number of pieces on the board plus the steps all pawns have left: a
\* pawn move, a capture, an en passant and a promotion each make it smaller,
\* and no other move changes it
potential(pieces) ==
    Cardinality({s \in Squares : pieces[s] # NoPiece}) +
    Cardinality(UNION {{<<s, k>> : k \in 1..steps_left(pieces, s)} :
                          s \in {x \in Squares : pieces[x].name = "Pawn"}})

\* a bound on the number of make_move calls that can still leave result
\* unset
measure(pieces, clock) == FiftyMoveLimit * potential(pieces) + (FiftyMoveLimit - clock)

\* C24: every play ends: along every sequence of make_move calls with moves
\* returned by get_legal_moves, result becomes set after finitely many calls,
\* because the halfmove clock is reset only by pawn moves, captures and
\* promotions, of which a game admits only finitely many, and reaching 50
\* sets result to Draw. Stated for finite runs: while result is unset the
\* measure is positive, and every make_move made with result unset makes it
\* smaller.
C24_EveryPlayEnds ==
    /\ result = "None" => (draw_clock < FiftyMoveLimit /\ measure(board.pieces, draw_clock) > 0)
    /\ (applied > 0 /\ before.result = "None") =>
          /\ measure(board.pieces, draw_clock) < measure(before_pieces, before.draw_clock)
          /\ potential(board.pieces) <= potential(before_pieces)
          /\ draw_clock <= before.draw_clock =>
                potential(board.pieces) < potential(before_pieces)

\* the fiftieth quiet move in a row: the pieces are as they were, the
\* measure went down by one, and result is Draw
C24_Witness ==
    /\ applied > 0 /\ before.result = "None"
    /\ potential(board.pieces) = potential(before_pieces)
    /\ measure(board.pieces, draw_clock) + 1 = measure(before_pieces, before.draw_clock)
    /\ draw_clock = FiftyMoveLimit
    /\ result = "Draw"

====
